---- MODULE Spec2Model ----
(***************************************************************************)
(* ComplexTensor (src/complex_tensor.py): a complex matrix stored as one   *)
(* real array whose first half of the rows is the real part and whose      *)
(* second half is the imaginary part.                                      *)
(*                                                                         *)
(* The array engine (torch) is modelled by what the calls of the source do *)
(* on dense 2-D arrays of integers: row slicing aliases the storage,       *)
(* elementwise + - * broadcast dimensions of size 1, mm needs matching     *)
(* inner dimensions, cat along dim 0 needs matching column counts and      *)
(* allocates a fresh storage, and a result requires grad (and has a        *)
(* grad_fn) exactly when one of its tensor inputs requires grad.           *)
(* Indexing a ComplexTensor gives a plain tensor, as the source relies on  *)
(* (real + other is the engine's addition, not __add__ again).  Numbers    *)
(* are integers; arithmetic with a Python complex whose imaginary part is  *)
(* zero is modelled by its value.  Tensors are dense, so __deepcopy__      *)
(* takes its storage branch.                                               *)
(***************************************************************************)
EXTENDS Integers, Sequences, FiniteSets, TLC

\* Bound of the model: the number of in-place writes a behaviour makes.
MaxMut == 1

\* The caller's program keeps two ComplexTensors, a and then b; what a further
\* call returns is seen in `last` only.
CallerVars == <<"a", "b">>

VARIABLES
    storage,    \* storage id -> flat sequence of numbers (the engine's storages)
    tensors,    \* the ComplexTensor objects kept by the caller
    last,       \* the last call: its operands as they were, and its outcome
    nmut        \* number of in-place writes so far

vars == <<storage, tensors, last, nmut>>

----------------------------------------------------------------------------
\* Inputs the caller passes.

\* Explicit data for ComplexTensor(data): rows already stacked real-then-imag.
DataSet ==
    { <<<<2>>, <<3>>>>,                             \* 2+3i
      <<<<1, 2>>, <<3, 4>>>>,                       \* logical 1x2
      <<<<1>>, <<2>>, <<3>>, <<4>>>>,               \* logical 2x1
      <<<<1, 2>>, <<0, 1>>, <<0, 0>>, <<0, 0>>>> }  \* logical 2x2, zero imaginary part

\* Size arguments for ComplexTensor(x, *args).
ShapeArgs == { <<1>>, <<1, 1>> }

\* What freshly allocated, uninitialised memory may hold.
UninitVals == {0, 9}

\* Real torch.Tensor operands, each with its requires_grad.
RealTensors ==
    { <<<<<<2>>>>, FALSE>>,
      <<<<<<1>>, <<2>>>>, TRUE>>,
      <<<<<<3, 1>>, <<2, 5>>>>, FALSE>> }

RealScalars == {2}

\* Python complex scalars as <<real, imag>>; <<2, 0>> is complex(2, 0).
ComplexScalars == { <<1, -1>>, <<2, 0>> }

MutVals == {7}

----------------------------------------------------------------------------
\* The array engine on matrices (sequences of rows).

Rows(M) == Len(M)
Cols(M) == IF Len(M) = 0 THEN 0 ELSE Len(M[1])
Max2(a, b) == IF a >= b THEN a ELSE b

RECURSIVE Flat(_)
Flat(M) == IF M = <<>> THEN <<>> ELSE M[1] \o Flat(Tail(M))

RECURSIVE Numel(_)
Numel(shape) == IF shape = <<>> THEN 1 ELSE shape[1] * Numel(Tail(shape))

\* The matrix held by `data` at offset `off` with r rows and c columns.
MatAt(data, off, r, c) ==
    [i \in 1..r |-> [j \in 1..c |-> data[off + (i - 1) * c + j]]]

\* The matrix a 2-D tensor or view denotes, read through its storage.
MatOf(store, t) == MatAt(store[t.st], t.off, t.shape[1], t.shape[2])

\* All the numbers of a tensor, in storage order.
FlatOf(store, t) == SubSeq(store[t.st], t.off + 1, t.off + Numel(t.shape))

Ap(op, x, y) ==
    CASE op = "add" -> x + y
      [] op = "sub" -> x - y
      [] op = "mul" -> x * y

\* Two shapes broadcast when each dimension agrees or one of them is 1.
BCompat(A, B) ==
    /\ Rows(A) = Rows(B) \/ Rows(A) = 1 \/ Rows(B) = 1
    /\ Cols(A) = Cols(B) \/ Cols(A) = 1 \/ Cols(B) = 1

BIdx(k, n) == IF n = 1 THEN 1 ELSE k

\* Elementwise A op B with broadcasting (BCompat(A, B) assumed).
EW(op, A, B) ==
    [i \in 1..Max2(Rows(A), Rows(B)) |->
        [j \in 1..Max2(Cols(A), Cols(B)) |->
            Ap(op, A[BIdx(i, Rows(A))][BIdx(j, Cols(A))],
                   B[BIdx(i, Rows(B))][BIdx(j, Cols(B))])]]

\* Elementwise A op s for a scalar s.
EWS(op, A, s) == [i \in 1..Rows(A) |-> [j \in 1..Cols(A) |-> Ap(op, A[i][j], s)]]

RECURSIVE Dot(_, _, _, _, _)
Dot(A, B, i, j, k) ==
    IF k = 0 THEN 0 ELSE Dot(A, B, i, j, k - 1) + A[i][k] * B[k][j]

\* torch mm (Cols(A) = Rows(B) assumed).
MatMul(A, B) ==
    [i \in 1..Rows(A) |-> [j \in 1..Cols(B) |-> Dot(A, B, i, j, Cols(A))]]

Transpose(A) == [j \in 1..Cols(A) |-> [i \in 1..Rows(A) |-> A[i][j]]]

Ok(M) == [out |-> "ok", mat |-> M]
Fail(e) == [out |-> e, mat |-> <<>>]

----------------------------------------------------------------------------
\* Operands of the binary operators.

NoOther ==
    [kind |-> "none", mat |-> <<>>, dims |-> 0, re |-> 0, im |-> 0,
     rg |-> FALSE, id |-> 0]

TensorOperand(M, rg) ==
    [kind |-> "tensor", mat |-> M, dims |-> 2, re |-> 0, im |-> 0,
     rg |-> rg, id |-> 0]

ComplexOperand(store, ts, j) ==
    [kind |-> "complex_tensor",
     mat |-> IF Len(ts[j].shape) = 2 THEN MatOf(store, ts[j]) ELSE <<>>,
     dims |-> Len(ts[j].shape), re |-> 0, im |-> 0, rg |-> ts[j].rg, id |-> j]

RealScalar(x) ==
    [kind |-> "real", mat |-> <<>>, dims |-> 0, re |-> x, im |-> 0,
     rg |-> FALSE, id |-> 0]

ComplexScalar(c) ==
    [kind |-> "complex", mat |-> <<>>, dims |-> 0, re |-> c[1], im |-> c[2],
     rg |-> FALSE, id |-> 0]

\* np.isreal(other) on a Python scalar: its imaginary part is zero.
np_isreal(other) == other.kind = "real" \/ other.im = 0

\* The if/elif chain of __add__, __sub__ and __mul__.
Dispatch(other) ==
    CASE other.kind = "tensor" -> "tensor"
      [] other.kind = "complex_tensor" -> "complex_tensor"
      [] other.kind \in {"real", "complex"} /\ np_isreal(other) -> "real_scalar"
      [] OTHER -> "complex_scalar"

----------------------------------------------------------------------------
\* ComplexTensor.

\* real: self[:n//2]; imag: self[n//2:]  (on the matrix of a 2-D tensor)
real(M) == SubSeq(M, 1, Rows(M) \div 2)
imag(M) == SubSeq(M, Rows(M) \div 2 + 1, Rows(M))

\* A slice that copies the rows instead of aliasing them.
Slice_Snapshot(store, t, lo, hi) ==
    [store |-> Append(store, SubSeq(store[t.st], t.off + lo * t.shape[2] + 1,
                                    t.off + hi * t.shape[2])),
     view |-> [st |-> Len(store) + 1, off |-> 0,
               shape |-> <<hi - lo, t.shape[2]>>]]

\* The same slices as the engine makes them: a view on rows [lo, hi) of t
\* that aliases t's storage.  Returns the store and the view.
Slice(store, t, lo, hi) ==
    [store |-> store,
     view |-> [st |-> t.st, off |-> t.off + lo * t.shape[2],
               shape |-> <<hi - lo, t.shape[2]>>]]

\* Engine calls on values that may already be a raised error: the first error
\* raised is the outcome of the whole handler.
Bin(op, X, Y) ==
    IF X.out # "ok" THEN X
    ELSE IF Y.out # "ok" THEN Y
    ELSE IF BCompat(X.mat, Y.mat) THEN Ok(EW(op, X.mat, Y.mat))
    ELSE Fail("RuntimeError")

BinS(op, X, s) == IF X.out # "ok" THEN X ELSE Ok(EWS(op, X.mat, s))

MM(X, Y) ==
    IF X.out # "ok" THEN X
    ELSE IF Y.out # "ok" THEN Y
    ELSE IF Cols(X.mat) = Rows(Y.mat) THEN Ok(MatMul(X.mat, Y.mat))
    ELSE Fail("RuntimeError")

Tr(X) == IF X.out # "ok" THEN X ELSE Ok(Transpose(X.mat))

\* other.real / other.imag of a ComplexTensor operand: `n, m = self.size()`
\* raises ValueError unless the operand is 2-D.
OtherReal(other) == IF other.dims = 2 THEN Ok(real(other.mat)) ELSE Fail("ValueError")
OtherImag(other) == IF other.dims = 2 THEN Ok(imag(other.mat)) ELSE Fail("ValueError")

\* __graph_copy__: torch.cat([real, imag], dim=0), a fresh array.
GraphCopy(re, im) ==
    IF re.out # "ok" THEN re
    ELSE IF im.out # "ok" THEN im
    ELSE IF Cols(re.mat) = Cols(im.mat) THEN Ok(re.mat \o im.mat)
    ELSE Fail("RuntimeError")

\* A real operand applied to the imaginary part as well.
AddRealTensor_BothParts(op, re, im, other) ==
    <<Bin(op, re, Ok(other.mat)), Bin(op, im, Ok(other.mat))>>

\* The <<real, imag>> each branch of __add__ / __sub__ computes (op is "add"
\* or "sub").
AddRealTensor(op, re, im, other) == <<Bin(op, re, Ok(other.mat)), im>>

AddComplexTensor(op, re, im, other) ==
    <<Bin(op, re, OtherReal(other)), Bin(op, im, OtherImag(other))>>

AddRealScalar(op, re, im, other) == <<BinS(op, re, other.re), im>>

AddComplexScalar(op, re, im, other) ==
    <<BinS(op, re, other.re), BinS(op, im, other.im)>>

AddSubParts(op, re, im, other) ==
    CASE Dispatch(other) = "tensor" -> AddRealTensor(op, re, im, other)
      [] Dispatch(other) = "complex_tensor" -> AddComplexTensor(op, re, im, other)
      [] Dispatch(other) = "real_scalar" -> AddRealScalar(op, re, im, other)
      [] OTHER -> AddComplexScalar(op, re, im, other)

\* __add__
Add(M, other) ==
    LET p == AddSubParts("add", Ok(real(M)), Ok(imag(M)), other)
    IN  GraphCopy(p[1], p[2])

\* __sub__
Sub(M, other) ==
    LET p == AddSubParts("sub", Ok(real(M)), Ok(imag(M)), other)
    IN  GraphCopy(p[1], p[2])

\* The complex product expansion of __mul__ for a ComplexTensor operand.
MulComplexTensor(re, im, other) ==
    LET ac == Bin("mul", re, OtherReal(other))
        bd == Bin("mul", im, OtherImag(other))
        ad == Bin("mul", re, OtherImag(other))
        bc == Bin("mul", im, OtherReal(other))
    IN  <<Bin("sub", ac, bd), Bin("add", ad, bc)>>

\* The expansion with the sign of bd wrong.
MulComplexScalar_PlusBd(re, im, other) ==
    LET ac == BinS("mul", re, other.re)
        bd == BinS("mul", im, other.im)
        ad == BinS("mul", re, other.im)
        bc == BinS("mul", im, other.re)
    IN  <<Bin("add", ac, bd), Bin("add", ad, bc)>>

\* The same expansion for a complex scalar.
MulComplexScalar(re, im, other) ==
    LET ac == BinS("mul", re, other.re)
        bd == BinS("mul", im, other.im)
        ad == BinS("mul", re, other.im)
        bc == BinS("mul", im, other.re)
    IN  <<Bin("sub", ac, bd), Bin("add", ad, bc)>>

MulRealTensor(re, im, other) ==
    <<Bin("mul", re, Ok(other.mat)), Bin("mul", im, Ok(other.mat))>>

MulRealScalar(re, im, other) ==
    <<BinS("mul", re, other.re), BinS("mul", im, other.re)>>

\* __mul__ (real.clone() and imag.clone() hold the same numbers)
Mul(M, other) ==
    LET re == Ok(real(M))
        im == Ok(imag(M))
        p == CASE Dispatch(other) = "tensor" -> MulRealTensor(re, im, other)
               [] Dispatch(other) = "complex_tensor" -> MulComplexTensor(re, im, other)
               [] Dispatch(other) = "real_scalar" -> MulRealScalar(re, im, other)
               [] OTHER -> MulComplexScalar(re, im, other)
    IN  GraphCopy(p[1], p[2])

MmRealTensor(re, im, other) == <<MM(re, Ok(other.mat)), MM(im, Ok(other.mat))>>

\* The matrix expansion with bd taken from the real part.
MmComplexTensor_WrongBd(re, im, other) ==
    LET ac == MM(re, OtherReal(other))
        bd == MM(re, OtherImag(other))
        ad == MM(re, OtherImag(other))
        bc == MM(im, OtherReal(other))
    IN  <<Bin("sub", ac, bd), Bin("add", ad, bc)>>

MmComplexTensor(re, im, other) ==
    LET ac == MM(re, OtherReal(other))
        bd == MM(im, OtherImag(other))
        ad == MM(re, OtherImag(other))
        bc == MM(im, OtherReal(other))
    IN  <<Bin("sub", ac, bd), Bin("add", ad, bc)>>

\* mm: an if/elif with no else, so any other operand leaves the cloned parts
\* as they are.
Mm(M, other) ==
    LET re == Ok(real(M))
        im == Ok(imag(M))
        p == CASE other.kind = "tensor" -> MmRealTensor(re, im, other)
               [] other.kind = "complex_tensor" -> MmComplexTensor(re, im, other)
               [] OTHER -> <<re, im>>
    IN  GraphCopy(p[1], p[2])

\* The parts handed on without transposing them.
TParts_NoTranspose(re, im) == <<re, im>>

TParts(re, im) == <<Tr(re), Tr(im)>>

\* t
T(M) ==
    LET p == TParts(Ok(real(M)), Ok(imag(M)))
    IN  GraphCopy(p[1], p[2])

\* A call of one of the operators on tensor t: self.real unpacks
\* `n, m = self.size()` first, which raises ValueError unless t is 2-D.
Call(opname, store, t, other) ==
    IF Len(t.shape) # 2 THEN Fail("ValueError")
    ELSE CASE opname = "add" -> Add(MatOf(store, t), other)
           [] opname = "sub" -> Sub(MatOf(store, t), other)
           [] opname = "mul" -> Mul(MatOf(store, t), other)
           [] opname = "mm" -> Mm(MatOf(store, t), other)
           [] opname = "t" -> T(MatOf(store, t))

\* Every tensor taken for a leaf.
IsLeaf_Always(t) == TRUE

\* is_leaf: the tensor does not require grad, or no operation produced it.
IsLeaf(t) == ~t.rg \/ ~t.gf

\* ComplexTensor.__new__(cls, x, *args): the sizes handed to torch.Tensor.
NewSize(x, args) ==
    <<x>> \o (IF Len(args) > 0 THEN <<2>> \o args ELSE args)

\* The copy left on the storage of the original.
DeepcopyStorage_Shared(store, t) == [store |-> store, st |-> t.st]

\* self.storage().__deepcopy__(memo): a new storage with the same numbers.
DeepcopyStorage(store, t) ==
    [store |-> Append(store, store[t.st]), st |-> Len(store) + 1]

----------------------------------------------------------------------------
\* The program state and the calls.

NoView == [st |-> 0, off |-> 0, shape |-> <<>>]

\* `final` marks a call that changed nothing the caller keeps: it is the last
\* call of the behaviour (a further call would start from the same arrays).
\* A behaviour is the caller building its arrays, then possibly one such
\* call, then in-place writes.
NoCall ==
    [op |-> "none", self |-> 0, other |-> NoOther, arg |-> <<>>, out |-> "ok",
     a |-> <<>>, ashape |-> <<>>, arg_rg |-> FALSE, agf |-> FALSE,
     aorigin |-> "none",
     res |-> <<>>, rshape |-> <<>>, rrg |-> FALSE, kept |-> 0,
     view |-> NoView, final |-> FALSE]

Init ==
    /\ storage = <<>>
    /\ tensors = <<>>
    /\ last = NoCall
    /\ nmut = 0

\* What `last` records about the tensor a call is made on.
OnSelf(opname, i, other) ==
    [NoCall EXCEPT !.op = opname, !.self = i, !.other = other,
                   !.a = FlatOf(storage, tensors[i]),
                   !.ashape = tensors[i].shape,
                   !.arg_rg = tensors[i].rg,
                   !.agf = tensors[i].gf,
                   !.aorigin = tensors[i].origin]

Building == ~last.final /\ nmut = 0

\* The caller keeps a new ComplexTensor while it has a variable for it.
Room == Len(tensors) < Len(CallerVars)

\* ComplexTensor(data): explicit nested data, stored as given.
Create(data) ==
    /\ Building
    /\ Room
    /\ storage' = Append(storage, Flat(data))
    /\ tensors' = Append(tensors,
            [st |-> Len(storage) + 1, off |-> 0,
             shape |-> <<Rows(data), Cols(data)>>,
             rg |-> FALSE, gf |-> FALSE, origin |-> "data", from |-> 0])
    /\ last' = [NoCall EXCEPT !.op = "create", !.res = Flat(data),
                              !.rshape = <<Rows(data), Cols(data)>>,
                              !.kept = Len(tensors) + 1]
    /\ UNCHANGED nmut

\* ComplexTensor(x, *args): a fresh array of the sizes NewSize gives, whose
\* memory is not initialised.
CreateShape(x, args) ==
    /\ Building
    /\ Room
    /\ \E d \in [1..Numel(NewSize(x, args)) -> UninitVals] :
        /\ storage' = Append(storage, d)
        /\ last' = [NoCall EXCEPT !.op = "create_shape", !.arg = <<x>> \o args,
                                  !.res = d, !.rshape = NewSize(x, args),
                                  !.kept = Len(tensors) + 1]
    /\ tensors' = Append(tensors,
            [st |-> Len(storage) + 1, off |-> 0, shape |-> NewSize(x, args),
             rg |-> FALSE, gf |-> FALSE, origin |-> "shape", from |-> 0])
    /\ UNCHANGED nmut

\* c.requires_grad = True, which the engine allows on a leaf.
SetRequiresGrad(i) ==
    /\ Building
    /\ IsLeaf(tensors[i])
    /\ ~tensors[i].rg
    /\ tensors' = [tensors EXCEPT ![i].rg = TRUE]
    /\ UNCHANGED <<storage, last, nmut>>

\* One of add, sub, mul, mm, t on tensors[i]: the handler runs, and its
\* result is a new ComplexTensor on a fresh storage, attached to the graph
\* when an input requires grad.
Apply(opname, i, other) ==
    LET t == tensors[i]
        r == Call(opname, storage, t, other)
        g == t.rg \/ other.rg
        keep == r.out = "ok" /\ Room
        shape == IF r.out = "ok" THEN <<Rows(r.mat), Cols(r.mat)>> ELSE <<>>
    IN  /\ Building
        /\ last' = [OnSelf(opname, i, other) EXCEPT
                        !.out = r.out, !.res = Flat(r.mat), !.rshape = shape,
                        !.rrg = (r.out = "ok" /\ g),
                        !.kept = IF keep THEN Len(tensors) + 1 ELSE 0,
                        !.final = ~keep]
        /\ IF keep
           THEN /\ storage' = Append(storage, Flat(r.mat))
                /\ tensors' = Append(tensors,
                        [st |-> Len(storage) + 1, off |-> 0, shape |-> shape,
                         rg |-> g, gf |-> g, origin |-> opname, from |-> i])
           ELSE UNCHANGED <<storage, tensors>>
        /\ UNCHANGED nmut

Operands ==
    {TensorOperand(x[1], x[2]) : x \in RealTensors}
    \cup {ComplexOperand(storage, tensors, j) : j \in 1..Len(tensors)}
    \cup {RealScalar(x) : x \in RealScalars}
    \cup {ComplexScalar(c) : c \in ComplexScalars}

DoAdd == \E i \in 1..Len(tensors), other \in Operands : Apply("add", i, other)
DoSub == \E i \in 1..Len(tensors), other \in Operands : Apply("sub", i, other)
DoMul == \E i \in 1..Len(tensors), other \in Operands : Apply("mul", i, other)
DoMm == \E i \in 1..Len(tensors), other \in Operands : Apply("mm", i, other)
DoT == \E i \in 1..Len(tensors) : Apply("t", i, NoOther)

\* The memo a deepcopy call may hold for self: nothing (0), or the copy of
\* self made earlier in the same call.
Memo(i) ==
    {0} \cup {j \in 1..Len(tensors) :
                /\ tensors[j].origin = "deepcopy" /\ tensors[j].from = i
                /\ tensors[j].shape = tensors[i].shape
                /\ tensors[j].rg = tensors[i].rg
                /\ FlatOf(storage, tensors[j]) = FlatOf(storage, tensors[i])}

\* __deepcopy__(memo) on a dense tensor.
Deepcopy(i, m) ==
    LET t == tensors[i]
        c == DeepcopyStorage(storage, t)
        call == OnSelf("deepcopy", i, NoOther)
    IN  /\ Building
        /\ UNCHANGED nmut
        /\ IF ~IsLeaf(t)
           THEN /\ last' = [call EXCEPT !.out = "RuntimeError", !.final = TRUE]
                /\ UNCHANGED <<storage, tensors>>
           ELSE IF m # 0
           THEN /\ last' = [call EXCEPT !.res = FlatOf(storage, tensors[m]),
                                        !.rshape = tensors[m].shape,
                                        !.rrg = tensors[m].rg, !.kept = m,
                                        !.final = TRUE]
                /\ UNCHANGED <<storage, tensors>>
           ELSE /\ last' = [call EXCEPT
                                !.res = SubSeq(c.store[c.st], t.off + 1,
                                               t.off + Numel(t.shape)),
                                !.rshape = t.shape, !.rrg = t.rg,
                                !.kept = IF Room THEN Len(tensors) + 1 ELSE 0,
                                !.final = ~Room]
                /\ IF Room
                   THEN /\ storage' = c.store
                        /\ tensors' = Append(tensors,
                                [st |-> c.st, off |-> t.off, shape |-> t.shape,
                                 rg |-> t.rg, gf |-> FALSE,
                                 origin |-> "deepcopy", from |-> i])
                   ELSE UNCHANGED <<storage, tensors>>

DoDeepcopy == \E i \in 1..Len(tensors) : \E m \in Memo(i) : Deepcopy(i, m)

\* a.real / a.imag: the caller holds the returned view (last.view).
TakeView(i, part) ==
    LET t == tensors[i]
        n == t.shape[1]
        s == IF part = "real" THEN Slice(storage, t, 0, n \div 2)
                              ELSE Slice(storage, t, n \div 2, n)
    IN  /\ Building
        /\ UNCHANGED <<tensors, nmut>>
        /\ IF Len(t.shape) # 2
           THEN /\ last' = [OnSelf(part, i, NoOther) EXCEPT
                                !.out = "ValueError", !.final = TRUE]
                /\ UNCHANGED storage
           ELSE /\ last' = [OnSelf(part, i, NoOther) EXCEPT
                                !.res = Flat(MatOf(s.store, s.view)),
                                !.rshape = s.view.shape,
                                !.view = s.view, !.final = TRUE]
                /\ storage' = s.store

DoReal == \E i \in 1..Len(tensors) : TakeView(i, "real")
DoImag == \E i \in 1..Len(tensors) : TakeView(i, "imag")

HoldsView == last.op \in {"real", "imag"} /\ last.out = "ok"

\* An in-place add of v to every element of a tensor's backing array
\* (a.add_(v)), made while the caller holds its arrays and possibly a view.
Mutate(i, v) ==
    LET t == tensors[i]
    IN  /\ ~last.final \/ HoldsView
        /\ nmut < MaxMut
        /\ storage' = [storage EXCEPT ![t.st] =
                [k \in 1..Len(storage[t.st]) |->
                    IF k > t.off /\ k <= t.off + Numel(t.shape)
                    THEN storage[t.st][k] + v ELSE storage[t.st][k]]]
        /\ nmut' = nmut + 1
        /\ UNCHANGED <<tensors, last>>

\* The same write made through the view the caller holds.
MutateView(v) ==
    LET x == last.view
    IN  /\ HoldsView
        /\ nmut < MaxMut
        /\ storage' = [storage EXCEPT ![x.st] =
                [k \in 1..Len(storage[x.st]) |->
                    IF k > x.off /\ k <= x.off + Numel(x.shape)
                    THEN storage[x.st][k] + v ELSE storage[x.st][k]]]
        /\ nmut' = nmut + 1
        /\ UNCHANGED <<tensors, last>>

DoCreate == \E data \in DataSet : Create(data)
DoCreateShape == \E s \in ShapeArgs : CreateShape(Head(s), Tail(s))
DoSetRequiresGrad == \E i \in 1..Len(tensors) : SetRequiresGrad(i)
DoMutate == \E i \in 1..Len(tensors), v \in MutVals : Mutate(i, v)
DoMutateView == \E v \in MutVals : MutateView(v)

Next ==
    \/ DoCreate
    \/ DoCreateShape
    \/ DoSetRequiresGrad
    \/ DoAdd
    \/ DoSub
    \/ DoMul
    \/ DoMm
    \/ DoT
    \/ DoDeepcopy
    \/ DoReal
    \/ DoImag
    \/ DoMutate
    \/ DoMutateView

Spec == Init /\ [][Next]_vars

----------------------------------------------------------------------------
\* Properties.

DerivedOps == {"add", "sub", "mul", "mm", "t"}

\* A backing shape (2n, m): 2-D with an even number of rows.
Stacked(shape) == Len(shape) = 2 /\ shape[1] % 2 = 0

\* The matrix a recorded array (flat numbers and a 2-D shape) denotes.
Mat(flat, shape) == MatAt(flat, 0, shape[1], shape[2])

\* Sum over l in 1..k of A[ra + i][l] * B[rb + l][j].
RECURSIVE InnerSum(_, _, _, _, _, _, _)
InnerSum(A, B, i, j, ra, rb, k) ==
    IF k = 0 THEN 0
    ELSE InnerSum(A, B, i, j, ra, rb, k - 1) + A[ra + i][k] * B[rb + k][j]

\* C1: a * b follows the complex product expansion for a ComplexTensor b of
\* the same logical shape and for a complex scalar b (real part
\* a.real*b.real - a.imag*b.imag, imaginary part a.real*b.imag + a.imag*b.real),
\* and for a real tensor or real scalar both parts are multiplied by it.
C1_MulProduct ==
    (last.op = "mul" /\ Stacked(last.ashape)) =>
        LET A == Mat(last.a, last.ashape)
            n == last.ashape[1] \div 2
            m == last.ashape[2]
            o == last.other
            R == Mat(last.res, last.rshape)
            B == o.mat
        IN  /\ (o.kind = "complex_tensor" /\ o.dims = 2
                    /\ <<Rows(B), Cols(B)>> = last.ashape) =>
                /\ last.out = "ok"
                /\ last.rshape = <<2 * n, m>>
                /\ \A i \in 1..n, j \in 1..m :
                    /\ R[i][j] = A[i][j] * B[i][j] - A[n + i][j] * B[n + i][j]
                    /\ R[n + i][j] = A[i][j] * B[n + i][j] + A[n + i][j] * B[i][j]
            /\ o.kind = "complex" =>
                /\ last.out = "ok"
                /\ last.rshape = <<2 * n, m>>
                /\ \A i \in 1..n, j \in 1..m :
                    /\ R[i][j] = A[i][j] * o.re - A[n + i][j] * o.im
                    /\ R[n + i][j] = A[i][j] * o.im + A[n + i][j] * o.re
            /\ o.kind = "real" =>
                /\ last.out = "ok"
                /\ last.rshape = <<2 * n, m>>
                /\ \A i \in 1..(2 * n), j \in 1..m : R[i][j] = A[i][j] * o.re
            /\ (o.kind = "tensor" /\ BCompat(real(A), B)) =>
                LET r == Max2(n, Rows(B))
                    c == Max2(m, Cols(B))
                IN  /\ last.out = "ok"
                    /\ last.rshape = <<2 * r, c>>
                    /\ \A i \in 1..r, j \in 1..c :
                        LET x == B[BIdx(i, Rows(B))][BIdx(j, Cols(B))]
                        IN  /\ R[i][j] = A[BIdx(i, n)][BIdx(j, m)] * x
                            /\ R[r + i][j] = A[n + BIdx(i, n)][BIdx(j, m)] * x

\* (2+3i) * (1-1i) = (2*1 - 3*(-1)) + (2*(-1) + 3*1)i = 5 + 1i
C1_Witness ==
    /\ last.op = "mul" /\ last.a = <<2, 3>> /\ last.ashape = <<2, 1>>
    /\ last.other.kind = "complex" /\ last.other.re = 1 /\ last.other.im = -1
    /\ last.res = <<5, 1>>

\* C1 as claimed, with its example: (2+3i) * (1-1i) = 5 + (-1)i.
C1_MulProductWithExample ==
    /\ C1_MulProduct
    /\ ( /\ last.op = "mul" /\ last.a = <<2, 3>> /\ last.ashape = <<2, 1>>
         /\ last.other.kind = "complex"
         /\ last.other.re = 1 /\ last.other.im = -1 ) =>
            last.res = <<5, -1>>

\* A real tensor whose shape is that of a.real(), or broadcasts to it.
FitsReal(X, n, m) == Rows(X) \in {1, n} /\ Cols(X) \in {1, m}

C3_MmScalarRaises ==
    (last.op = "mm" /\ last.other.kind \in {"real", "complex"}) =>
        (last.out # "ok" /\ last.res = <<>>)

C5_FirstDimDoubled ==
    (last.op = "create_shape" /\ Len(last.arg) = 2) =>
        last.rshape = <<2 * last.arg[1], last.arg[2]>>

\* C6: every ComplexTensor, created or derived, is 2-D with an even number of
\* rows, its real and imaginary parts have the same shape, and a derived one
\* is the concatenation of the computed parts.
C6_StackedShape ==
    /\ \A i \in 1..Len(tensors) :
        /\ Stacked(tensors[i].shape)
        /\ Rows(real(MatOf(storage, tensors[i])))
                = Rows(imag(MatOf(storage, tensors[i])))
    /\ (last.op \in DerivedOps /\ last.out = "ok") => Stacked(last.rshape)

\* C7: a.mm(b) for ComplexTensors of logical shapes (n, k) and (k, m) has
\* logical shape (n, m), real part a.real@b.real - a.imag@b.imag and
\* imaginary part a.real@b.imag + a.imag@b.real, so with both imaginary parts
\* zero it is the real product with a zero imaginary part; for a real tensor
\* x of shape (k, m) the parts are a.real@x and a.imag@x.
C7_MmProduct ==
    (last.op = "mm" /\ Stacked(last.ashape)) =>
        LET A == Mat(last.a, last.ashape)
            n == last.ashape[1] \div 2
            k == last.ashape[2]
            o == last.other
            B == o.mat
            m == Cols(B)
            R == Mat(last.res, last.rshape)
        IN  /\ (o.kind = "complex_tensor" /\ o.dims = 2 /\ Rows(B) = 2 * k) =>
                /\ last.out = "ok"
                /\ last.rshape = <<2 * n, m>>
                /\ \A i \in 1..n, j \in 1..m :
                    /\ R[i][j] = InnerSum(A, B, i, j, 0, 0, k)
                                    - InnerSum(A, B, i, j, n, k, k)
                    /\ R[n + i][j] = InnerSum(A, B, i, j, 0, k, k)
                                    + InnerSum(A, B, i, j, n, 0, k)
                /\ ( /\ \A i \in 1..n, j \in 1..k : A[n + i][j] = 0
                     /\ \A i \in 1..k, j \in 1..m : B[k + i][j] = 0 ) =>
                    \A i \in 1..n, j \in 1..m :
                        /\ R[i][j] = InnerSum(A, B, i, j, 0, 0, k)
                        /\ R[n + i][j] = 0
            /\ (o.kind = "tensor" /\ Rows(B) = k) =>
                /\ last.out = "ok"
                /\ last.rshape = <<2 * n, m>>
                /\ \A i \in 1..n, j \in 1..m :
                    /\ R[i][j] = InnerSum(A, B, i, j, 0, 0, k)
                    /\ R[n + i][j] = InnerSum(A, B, i, j, n, 0, k)

\* (1+3i, 2+4i) mm (1+3i; 2+4i) = -20 + 22i
C7_Witness ==
    /\ last.op = "mm" /\ last.other.kind = "complex_tensor"
    /\ last.a = <<1, 2, 3, 4>> /\ last.ashape = <<2, 2>>
    /\ last.other.mat = <<<<1>>, <<2>>, <<3>>, <<4>>>>
    /\ last.res = <<-20, 22>>

UserMade == {"data", "shape"}

\* tensors[j] is the deep copy of the user-made leaf tensors[i].
CopyOfLeaf(j, i) ==
    /\ tensors[j].origin = "deepcopy" /\ tensors[j].from = i
    /\ tensors[i].origin \in UserMade

\* C8: deep copy of a leaf made from user data succeeds with the same shape,
\* contents and requires_grad, on a storage of its own: no write changes both
\* the original and the copy.
C8_LeafDeepcopyIndependent ==
    /\ [](  (last.op = "deepcopy" /\ last.aorigin \in UserMade) =>
                /\ last.out = "ok"
                /\ last.rshape = last.ashape
                /\ last.res = last.a
                /\ last.rrg = last.arg_rg )
    /\ [][ \A i, j \in 1..Len(tensors) :
                CopyOfLeaf(j, i) =>
                    \/ FlatOf(storage', tensors[i]) = FlatOf(storage, tensors[i])
                    \/ FlatOf(storage', tensors[j]) = FlatOf(storage, tensors[j])
         ]_vars

\* A leaf that requires grad was copied, and one of the two was written since.
C8_Witness ==
    \E i, j \in 1..Len(tensors) :
        /\ CopyOfLeaf(j, i)
        /\ tensors[i].rg /\ tensors[j].rg
        /\ nmut > 0
        /\ FlatOf(storage, tensors[i]) # FlatOf(storage, tensors[j])

\* C9: a.t() has logical shape (m, n), real part transpose(a.real) and
\* imaginary part transpose(a.imag), and a.t().t() has the backing shape and
\* the contents of a.
C9_TransposeInvolution ==
    (last.op = "t" /\ Stacked(last.ashape)) =>
        LET A == Mat(last.a, last.ashape)
            n == last.ashape[1] \div 2
            m == last.ashape[2]
            R == Mat(last.res, last.rshape)
            s == tensors[last.self]
        IN  /\ last.out = "ok"
            /\ last.rshape = <<2 * m, n>>
            /\ \A i \in 1..m, j \in 1..n :
                /\ R[i][j] = A[j][i]
                /\ R[m + i][j] = A[n + j][i]
            /\ (s.origin = "t" /\ Stacked(tensors[s.from].shape) /\ nmut = 0) =>
                /\ last.rshape = tensors[s.from].shape
                /\ last.res = FlatOf(storage, tensors[s.from])

\* t() of the transpose of the logical 1x2 array (1+3i, 2+4i) gives it back.
C9_Witness ==
    /\ last.op = "t" /\ last.out = "ok"
    /\ tensors[last.self].origin = "t"
    /\ last.ashape = <<4, 1>>
    /\ last.rshape = <<2, 2>> /\ last.res = <<1, 2, 3, 4>>

\* C10: a view from a.real() or a.imag() always equals the current rows
\* [0, n) or [n, 2n) of a's backing array, whatever is written in place
\* after it was taken, and no write to a changes an array an earlier add,
\* sub, mul, mm or t on a returned.
C10_ViewsLive ==
    /\ [](  HoldsView =>
                LET M == MatOf(storage, tensors[last.self])
                    n == Rows(M) \div 2
                IN  MatOf(storage, last.view) =
                        IF last.op = "real" THEN SubSeq(M, 1, n)
                                            ELSE SubSeq(M, n + 1, Rows(M)) )
    /\ [][ \A i, j \in 1..Len(tensors) :
                (tensors[j].origin \in DerivedOps /\ tensors[j].from = i) =>
                    \/ FlatOf(storage', tensors[i]) = FlatOf(storage, tensors[i])
                    \/ FlatOf(storage', tensors[j]) = FlatOf(storage, tensors[j])
         ]_vars

\* A view was taken, a write followed, and the view shows it.
C10_Witness ==
    /\ HoldsView /\ nmut > 0
    /\ Flat(MatOf(storage, last.view)) # last.res

====
